---------------------------- MODULE Spec2Model ----------------------------
(***************************************************************************)
(* Me TV frontend manager (src/src/frontend_manager.rs).                   *)
(*                                                                         *)
(* The manager thread `run` scans /dev/dvb once (search_and_add_adaptors), *)
(* then loops on the inbound channel from the inotify daemon, enumerating  *)
(* the frontends of each adapter that appears (add_frontends) and          *)
(* forwarding each adapter removal to the control window.                  *)
(*                                                                         *)
(* The filesystem, the inotify daemon (the inbound Sender) and the control *)
(* window (the outbound Receiver) are the environment.                     *)
(***************************************************************************)
EXTENDS Integers, Sequences, FiniteSets, TLC

(* ------------------------------ bounds --------------------------------- *)

\* Adapter ids that can exist in the filesystem or in a message: 0..MaxAdapter.
MaxAdapter == 1

\* Frontend ids that can exist in the filesystem: 0..MaxFrontend.
MaxFrontend == 2

\* Messages the inotify daemon sends before it goes quiet.
MaxInbound == 2

\* Where the filesystem changes under the manager: what the environment
\* does in all, filesystem changes and messages of the inotify daemon.
MaxEnv == 2

\* Where the frontend index runs up to the end of its type: the turns of
\* the loop of add_frontends that are followed.
MaxTurns == 5

\* u16::MAX, the largest adapter or frontend index.
U16_MAX == 65535

\* me-tv-record: the adapter and frontend numbers asked for, and those the
\* element holds beforehand: 0..MaxNumber.
MaxNumber == 2

AdapterIds == 0 .. MaxAdapter
FrontendIds == 0 .. MaxFrontend

(* --------------------------- data and paths ---------------------------- *)

FrontendId(a, f) == [adapter |-> a, frontend |-> f]

\* Outbound messages (enum Message).
AdapterDisappeared(id) == [type |-> "AdapterDisappeared", id |-> id]
FrontendAppeared(id) == [type |-> "FrontendAppeared", fei |-> id]

\* Inbound messages (inotify_daemon::Message).
IN_AdapterAppeared(id) == [type |-> "AdapterAppeared", id |-> id]
IN_AdapterDisappeared(id) == [type |-> "AdapterDisappeared", id |-> id]
IN_Message == {IN_AdapterAppeared(a) : a \in AdapterIds}
                  \cup {IN_AdapterDisappeared(a) : a \in AdapterIds}

Digit(d) ==
    CASE d = 0 -> "0" [] d = 1 -> "1" [] d = 2 -> "2" [] d = 3 -> "3"
      [] d = 4 -> "4" [] d = 5 -> "5" [] d = 6 -> "6" [] d = 7 -> "7"
      [] d = 8 -> "8" [] d = 9 -> "9"

\* u16::to_string: the decimal digits, most significant first, no padding.
RECURSIVE to_string(_)
to_string(n) ==
    IF n < 10 THEN Digit(n) ELSE to_string(n \div 10) \o Digit(n % 10)

DVB_BASE_PATH == "/dev/dvb"

adapter_path(id) == DVB_BASE_PATH \o "/adapter" \o to_string(id)

\* Mutant of frontend_path: the frontend index is taken one up.
frontend_path_offset(id) ==
    adapter_path(id.adapter) \o "/frontend" \o to_string(id.frontend + 1)

frontend_path(id) ==
    adapter_path(id.adapter) \o "/frontend" \o to_string(id.frontend)

\* Mutant of demux_path: the two indices are written side by side.
demux_path_joined(id) ==
    DVB_BASE_PATH \o "/demux" \o to_string(id.adapter) \o to_string(id.frontend)

demux_path(id) ==
    adapter_path(id.adapter) \o "/demux" \o to_string(id.frontend)

dvr_path(id) ==
    adapter_path(id.adapter) \o "/dvr" \o to_string(id.frontend)

(* ------------------------------ filesystem ----------------------------- *)

AdapterPaths == {adapter_path(a) : a \in AdapterIds}
FrontendPathsOf(a) == {frontend_path(FrontendId(a, f)) : f \in FrontendIds}
FrontendPaths == UNION {FrontendPathsOf(a) : a \in AdapterIds}
Paths == {DVB_BASE_PATH} \cup AdapterPaths \cup FrontendPaths

\* What a path can be: nothing, a directory, a character-special device, or
\* any other file type (regular file, block device, ...).
KindsOf(p) ==
    IF p \in FrontendPaths THEN {"absent", "char", "other"}
                           ELSE {"absent", "dir"}

AdapterOf(p) ==
    CHOOSE a \in AdapterIds : p = adapter_path(a) \/ p \in FrontendPathsOf(a)

FrontendOf(p) ==
    CHOOSE f \in FrontendIds : p = frontend_path(FrontendId(AdapterOf(p), f))

\* The filesystem in which the base directory exists iff base, the adapters
\* in dirs are directories, and adapter a's frontend f is of kind ks[a][f].
MakeFs(base, dirs, ks) ==
    [p \in Paths |->
        IF p = DVB_BASE_PATH THEN (IF base THEN "dir" ELSE "absent")
        ELSE IF ~base \/ AdapterOf(p) \notin dirs THEN "absent"
        ELSE IF p \in AdapterPaths THEN "dir"
        ELSE ks[AdapterOf(p)][FrontendOf(p)]]

\* The directories each path lies in.
Ancestors ==
    [p \in Paths |->
        IF p \in FrontendPaths THEN {DVB_BASE_PATH, adapter_path(AdapterOf(p))}
        ELSE IF p \in AdapterPaths THEN {DVB_BASE_PATH}
        ELSE {}]

\* A path exists only inside an existing directory.
WellFormedFs(f) ==
    \A p \in Paths : f[p] # "absent" => \A d \in Ancestors[p] : f[d] = "dir"

\* Filesystem f after path p has become of kind k: creating an entry creates
\* the directories it lies in, removing a directory removes what is in it.
SetPath(f, p, k) ==
    [q \in Paths |->
        IF q = p THEN k
        ELSE IF k = "absent" /\ p \in Ancestors[q] THEN "absent"
        ELSE IF k # "absent" /\ q \in Ancestors[p] THEN "dir"
        ELSE f[q]]

\* n character devices at frontend indices 0..n-1 and nothing above.
Dense(n) == [f \in FrontendIds |-> IF f < n THEN "char" ELSE "absent"]

\* The filesystems of the documented layout: adapters 0..n-1, each with the
\* frontends 0..m-1 as character devices; or no base directory at all.
UniformFs ==
    {MakeFs(TRUE, 0 .. (n - 1), [a \in AdapterIds |-> Dense(m)]) :
        n \in 0 .. MaxAdapter + 1, m \in 0 .. MaxFrontend + 1}
    \cup {MakeFs(FALSE, {}, [a \in AdapterIds |-> Dense(0)])}

\* fs::metadata(path): Err ("absent") when nothing is at the path, else Ok
\* with the file type.
metadata(f, p) == IF p \in DOMAIN f THEN f[p] ELSE "absent"

(* -------------------------------- state -------------------------------- *)

VARIABLES
    fs,             \* the filesystem: path -> kind
    from_in,        \* messages queued on the inbound channel
    in_sender,      \* TRUE while the inotify daemon holds its Sender
    to_cw,          \* messages sent on the outbound channel, in send order
    cw_alive,       \* TRUE while the control window holds its Receiver
    pc,             \* where the manager thread is
    adapter_number, \* search_and_add_adaptors: the adapter being looked for
    fei,            \* add_frontends: the frontend being looked for
    caller,         \* add_frontends: "scan" or "run", where it returns to
    r,              \* run: the message last received
    sent_in,        \* history: every message the inotify daemon sent
    nrecv,          \* history: how many messages run has received
    cause,          \* history: cause[i] is the number of the received message
                    \*   that made run send to_cw[i], 0 for the startup scan
    cur,            \* history: the pass in progress or last finished
    nchanges,       \* history: filesystem changes so far that the inotify
                    \*   daemon does not report (FsChange)
    resolved,       \* the paths last resolved for fei by a caller of the
                    \*   four resolver functions, <<>> before any call
    matches,        \* me-tv-record: the --adapter and --frontend values
    element         \* me-tv-record: the element handed to the source-setup
                    \*   handler, its factory and its properties

vars == <<fs, from_in, in_sender, to_cw, cw_alive, pc, adapter_number, fei,
          caller, r, sent_in, nrecv, cause, cur, nchanges, resolved,
          matches, element>>

Startup == [type |-> "Startup", id |-> 0]

\* The record of one pass: n its number (0 the startup scan), msg what
\* started it, slept whether the settle delay has elapsed, q the metadata
\* queries made so far with their answers, stable whether the filesystem is
\* unchanged since the pass began to query it, c0 the number of filesystem
\* changes before the pass; and of the latest call of add_frontends in the
\* pass: called whether there was one, base the number of messages sent
\* before it, estable whether the filesystem is unchanged since it.
NewPass(n, msg) ==
    [n |-> n, msg |-> msg, slept |-> FALSE, q |-> <<>>, stable |-> TRUE,
     c0 |-> nchanges, called |-> FALSE, base |-> 0, estable |-> TRUE]

Queried(p, k) == [cur EXCEPT !.q = Append(@, <<p, k>>)]

\* The record when add_frontends is called.
Called(c) == [c EXCEPT !.called = TRUE, !.base = Len(to_cw), !.estable = TRUE]

InitManager ==
    /\ from_in = <<>>
    /\ in_sender = TRUE
    /\ to_cw = <<>>
    /\ cw_alive = TRUE
    /\ pc = "scan_base"
    /\ adapter_number = 0
    /\ fei = FrontendId(0, 0)
    /\ caller = "scan"
    /\ r = Startup
    /\ sent_in = <<>>
    /\ nrecv = 0
    /\ cause = <<>>
    /\ nchanges = 0
    /\ cur = NewPass(0, Startup)
    /\ resolved = <<>>
    /\ matches = <<>>
    /\ element = <<>>

(* ------------------------------ the manager ---------------------------- *)

\* Mutant of Send: the result of send is ignored.
Send_ignored(m, next) ==
    /\ pc' = next
    /\ IF cw_alive
       THEN /\ to_cw' = Append(to_cw, m)
            /\ cause' = Append(cause, cur'.n)
       ELSE UNCHANGED <<to_cw, cause>>

\* Mutant of Send: a FrontendAppeared already sent is not sent again.
Send_deduplicated(m, next) ==
    IF cw_alive
    THEN /\ pc' = next
         /\ IF \E i \in 1 .. Len(to_cw) : to_cw[i] = m
            THEN UNCHANGED <<to_cw, cause>>
            ELSE /\ to_cw' = Append(to_cw, m)
                 /\ cause' = Append(cause, cur'.n)
    ELSE /\ pc' = "panicked"
         /\ UNCHANGED <<to_cw, cause>>

\* to_cw.send(m).unwrap(), then on to next: enqueue, or panic when the
\* Receiver is gone.
Send(m, next) ==
    IF cw_alive
    THEN /\ to_cw' = Append(to_cw, m)
         /\ cause' = Append(cause, cur'.n)
         /\ pc' = next
    ELSE /\ pc' = "panicked"
         /\ UNCHANGED <<to_cw, cause>>

\* Mutant of is_char_device: any file type is taken for a frontend.
is_char_device_any(k) == TRUE

\* m.file_type().is_char_device()
is_char_device(k) == k = "char"

\* Mutant of is_err: anything but a character device ends the loop.
is_err_not_char(k) == k # "char"

\* The Err(_) arm of the match on fs::metadata.
is_err(k) == k = "absent"

\* Mutant of next_frontend: every other index is passed over.
next_frontend_skip(f) == f + 2

\* fei.frontend += 1 on a u16 that does not overflow, or that wraps around.
next_frontend(f) == (f + 1) % (U16_MAX + 1)

\* The outcomes of fei.frontend += 1: the next index; at u16::MAX the build
\* decides, a panic with overflow checks on (debug) and a wrap to 0 with
\* them off (release).
Increment(f) ==
    {[panic |-> FALSE, v |-> next_frontend(f)]}
        \cup (IF f = U16_MAX THEN {[panic |-> TRUE, v |-> f]} ELSE {})

\* Mutant of recv_value: the newest message is taken first.
recv_value_newest(q) == q[Len(q)]

\* from_in.recv() on a non-empty queue: the oldest message.
recv_value(q) == Head(q)

\* Mutant of ReturnTo: the return from add_frontends always lands in the
\* scanner's loop.
ReturnTo_scan(c) == "scan_adapter"

\* Where add_frontends returns to.
ReturnTo(c) == IF c = "scan" THEN "scan_adapter" ELSE "recv"

\* Mutant of search_base: the scan starts at adapter 1.
search_base_from_one ==
    /\ pc = "scan_base"
    /\ LET k == metadata(fs, DVB_BASE_PATH) IN
          /\ cur' = Queried(DVB_BASE_PATH, k)
          /\ pc' = IF ~is_err(k) THEN "scan_adapter" ELSE "recv"
    /\ adapter_number' = 1
    /\ UNCHANGED <<fs, from_in, in_sender, to_cw, cw_alive, fei, caller, r,
                   sent_in, nrecv, cause, nchanges,
                   resolved, matches, element>>

\* search_and_add_adaptors, the test of the base directory.
search_base ==
    /\ pc = "scan_base"
    /\ LET k == metadata(fs, DVB_BASE_PATH) IN
          /\ cur' = Queried(DVB_BASE_PATH, k)
          /\ pc' = IF ~is_err(k) THEN "scan_adapter" ELSE "recv"
    /\ adapter_number' = 0
    /\ UNCHANGED <<fs, from_in, in_sender, to_cw, cw_alive, fei, caller, r,
                   sent_in, nrecv, cause, nchanges,
                   resolved, matches, element>>

\* search_and_add_adaptors, one turn of its loop up to the call.
search_adapter ==
    /\ pc = "scan_adapter"
    /\ LET p == adapter_path(adapter_number)
           k == metadata(fs, p) IN
          /\ cur' = IF ~is_err(k) THEN Called(Queried(p, k)) ELSE Queried(p, k)
          /\ IF ~is_err(k)
             THEN /\ fei' = FrontendId(adapter_number, 0)
                  /\ caller' = "scan"
                  /\ pc' = "enum"
             ELSE /\ pc' = "recv"
                  /\ UNCHANGED <<fei, caller>>
    /\ UNCHANGED <<fs, from_in, in_sender, to_cw, cw_alive, adapter_number,
                   r, sent_in, nrecv, cause, nchanges,
                   resolved, matches, element>>

\* add_frontends, one turn of its loop; on Err the return to the caller
\* (and, in search_and_add_adaptors, the increment that follows the call).
add_frontends ==
    /\ pc = "enum"
    /\ LET p == frontend_path(fei)
           k == metadata(fs, p) IN
          /\ cur' = Queried(p, k)
          /\ IF is_err(k)
             THEN /\ pc' = ReturnTo(caller)
                  /\ adapter_number' =
                        IF caller = "scan" THEN adapter_number + 1
                                           ELSE adapter_number
                  /\ UNCHANGED <<fei, to_cw, cause>>
             ELSE /\ \E o \in Increment(fei.frontend) :
                       LET next == IF o.panic THEN "overflowed" ELSE "enum" IN
                       IF is_char_device(k)
                       THEN /\ Send(FrontendAppeared(fei), next)
                            /\ fei' = IF cw_alive
                                      THEN [fei EXCEPT !.frontend = o.v]
                                      ELSE fei
                       ELSE /\ fei' = [fei EXCEPT !.frontend = o.v]
                            /\ pc' = next
                            /\ UNCHANGED <<to_cw, cause>>
                  /\ UNCHANGED adapter_number
    /\ UNCHANGED <<fs, from_in, in_sender, cw_alive, caller, r, sent_in,
                   nrecv, nchanges,
                   resolved, matches, element>>

\* Mutant of recv_appeared: add_frontends is called without the sleep.
recv_appeared_no_sleep ==
    /\ pc = "recv"
    /\ from_in # <<>>
    /\ recv_value(from_in).type = "AdapterAppeared"
    /\ r' = recv_value(from_in)
    /\ from_in' = Tail(from_in)
    /\ nrecv' = nrecv + 1
    /\ cur' = Called(NewPass(nrecv + 1, r'))
    /\ fei' = FrontendId(r'.id, 0)
    /\ caller' = "run"
    /\ pc' = "enum"
    /\ UNCHANGED <<fs, in_sender, to_cw, cw_alive, adapter_number, sent_in,
                   cause, nchanges,
                   resolved, matches, element>>

\* run: recv() returns Ok(AdapterAppeared{id}); the thread goes to sleep.
recv_appeared ==
    /\ pc = "recv"
    /\ from_in # <<>>
    /\ recv_value(from_in).type = "AdapterAppeared"
    /\ r' = recv_value(from_in)
    /\ from_in' = Tail(from_in)
    /\ nrecv' = nrecv + 1
    /\ cur' = NewPass(nrecv + 1, r')
    /\ pc' = "sleep"
    /\ UNCHANGED <<fs, in_sender, to_cw, cw_alive, adapter_number, fei,
                   caller, sent_in, cause, nchanges,
                   resolved, matches, element>>

\* Mutant of sleep_done: on waking the manager finds the control window
\* gone and fails before it has anything to send.
sleep_done_probing ==
    /\ pc = "sleep"
    /\ fei' = FrontendId(r.id, 0)
    /\ caller' = "run"
    /\ pc' = IF cw_alive THEN "enum" ELSE "panicked"
    /\ cur' = Called([cur EXCEPT !.slept = TRUE, !.stable = TRUE])
    /\ UNCHANGED <<fs, from_in, in_sender, to_cw, cw_alive, adapter_number,
                   r, sent_in, nrecv, cause, nchanges, resolved,
                   matches, element>>

\* Mutant of sleep_done: what arrived during the sleep is discarded.
sleep_done_drained ==
    /\ pc = "sleep"
    /\ fei' = FrontendId(r.id, 0)
    /\ caller' = "run"
    /\ pc' = "enum"
    /\ from_in' = <<>>
    /\ cur' = Called([cur EXCEPT !.slept = TRUE, !.stable = TRUE])
    /\ UNCHANGED <<fs, in_sender, to_cw, cw_alive, adapter_number, r,
                   sent_in, nrecv, cause, nchanges,
                   resolved, matches, element>>

\* run: thread::sleep returns and add_frontends(&to_cw, id) is called.
sleep_done ==
    /\ pc = "sleep"
    /\ fei' = FrontendId(r.id, 0)
    /\ caller' = "run"
    /\ pc' = "enum"
    /\ cur' = Called([cur EXCEPT !.slept = TRUE, !.stable = TRUE])
    /\ UNCHANGED <<fs, from_in, in_sender, to_cw, cw_alive, adapter_number,
                   r, sent_in, nrecv, cause, nchanges,
                   resolved, matches, element>>

\* Mutant of recv_disappeared: the removal is received and not forwarded.
recv_disappeared_swallowed ==
    /\ pc = "recv"
    /\ from_in # <<>>
    /\ recv_value(from_in).type = "AdapterDisappeared"
    /\ r' = recv_value(from_in)
    /\ from_in' = Tail(from_in)
    /\ nrecv' = nrecv + 1
    /\ cur' = NewPass(nrecv + 1, r')
    /\ UNCHANGED <<fs, in_sender, to_cw, cw_alive, pc, adapter_number, fei,
                   caller, sent_in, cause, nchanges, resolved,
                   matches, element>>

\* Mutant of recv_disappeared: the removal is forwarded only once the
\* adapter's directory is seen to be gone.
recv_disappeared_revalidated ==
    /\ pc = "recv"
    /\ from_in # <<>>
    /\ recv_value(from_in).type = "AdapterDisappeared"
    /\ r' = recv_value(from_in)
    /\ from_in' = Tail(from_in)
    /\ nrecv' = nrecv + 1
    /\ LET p == adapter_path(r'.id)
           k == metadata(fs, p) IN
          /\ cur' = [NewPass(nrecv + 1, r') EXCEPT !.q = <<<<p, k>>>>]
          /\ IF is_err(k)
             THEN Send(AdapterDisappeared(r'.id), "recv")
             ELSE UNCHANGED <<to_cw, cause, pc>>
    /\ UNCHANGED <<fs, in_sender, cw_alive, adapter_number, fei, caller,
                   sent_in, nchanges,
                   resolved, matches, element>>

\* run: recv() returns Ok(AdapterDisappeared{id}), which is forwarded.
recv_disappeared ==
    /\ pc = "recv"
    /\ from_in # <<>>
    /\ recv_value(from_in).type = "AdapterDisappeared"
    /\ r' = recv_value(from_in)
    /\ from_in' = Tail(from_in)
    /\ nrecv' = nrecv + 1
    /\ cur' = NewPass(nrecv + 1, r')
    /\ Send(AdapterDisappeared(r'.id), "recv")
    /\ UNCHANGED <<fs, in_sender, cw_alive, adapter_number, fei, caller,
                   sent_in, nchanges,
                   resolved, matches, element>>

\* Mutant of recv_err: recv() fails as soon as the Sender is dropped,
\* whatever is still queued.
recv_err_undrained ==
    /\ pc = "recv"
    /\ ~in_sender
    /\ pc' = "terminated"
    /\ UNCHANGED <<fs, from_in, in_sender, to_cw, cw_alive, adapter_number,
                   fei, caller, r, sent_in, nrecv, cause, cur, nchanges,
                   resolved, matches, element>>

\* Mutant of recv_err: recv() gives up on an empty queue with the Sender
\* still held.
recv_err_timeout ==
    /\ pc = "recv"
    /\ from_in = <<>>
    /\ pc' = "terminated"
    /\ UNCHANGED <<fs, from_in, in_sender, to_cw, cw_alive, adapter_number,
                   fei, caller, r, sent_in, nrecv, cause, cur, nchanges,
                   resolved, matches, element>>

\* Mutant of recv_err: the loop goes round again instead of breaking.
recv_err_continue ==
    /\ pc = "recv"
    /\ from_in = <<>>
    /\ ~in_sender
    /\ UNCHANGED vars

\* run: recv() returns Err: the queue is empty and the Sender is dropped.
recv_err ==
    /\ pc = "recv"
    /\ from_in = <<>>
    /\ ~in_sender
    /\ pc' = "terminated"
    /\ UNCHANGED <<fs, from_in, in_sender, to_cw, cw_alive, adapter_number,
                   fei, caller, r, sent_in, nrecv, cause, cur, nchanges,
                   resolved, matches, element>>

Manager ==
    \/ search_base
    \/ search_adapter
    \/ add_frontends
    \/ recv_appeared
    \/ sleep_done
    \/ recv_disappeared
    \/ recv_err

(* ----------------------------- the environment ------------------------- *)

\* The inotify daemon sends a message.
WatcherSend(m) ==
    /\ in_sender
    /\ Len(sent_in) < MaxInbound
    /\ from_in' = Append(from_in, m)
    /\ sent_in' = Append(sent_in, m)
    /\ UNCHANGED <<fs, in_sender, to_cw, cw_alive, pc, adapter_number, fei,
                   caller, r, nrecv, cause, cur, nchanges,
                   resolved, matches, element>>

\* The inotify daemon drops its Sender.
WatcherDrop ==
    /\ in_sender
    /\ in_sender' = FALSE
    /\ UNCHANGED <<fs, from_in, to_cw, cw_alive, pc, adapter_number, fei,
                   caller, r, sent_in, nrecv, cause, cur, nchanges,
                   resolved, matches, element>>

\* The control window drops its Receiver.
ControlDrop ==
    /\ cw_alive
    /\ cw_alive' = FALSE
    /\ UNCHANGED <<fs, from_in, in_sender, to_cw, pc, adapter_number, fei,
                   caller, r, sent_in, nrecv, cause, cur, nchanges,
                   resolved, matches, element>>

Running == pc \notin {"terminated", "panicked", "overflowed"}

\* The paths the pass in progress has yet to ask about first. A change
\* anywhere else is invisible to this pass, and is made when a later pass
\* comes to it.
Relevant ==
    CASE pc = "scan_base" -> {DVB_BASE_PATH}
      [] pc = "scan_adapter" -> {adapter_path(adapter_number)} \cap Paths
      [] pc = "sleep" -> FrontendPathsOf(r.id)
      [] pc = "enum" -> {frontend_path(fei)} \cap Paths
      [] OTHER -> {}

\* Something creates, removes or replaces the entry at path p.
FsChange(p, k) ==
    /\ k # fs[p]
    /\ fs' = SetPath(fs, p, k)
    /\ nchanges' = nchanges + 1
    /\ cur' = [cur EXCEPT !.stable = FALSE, !.estable = FALSE]
    /\ UNCHANGED <<from_in, in_sender, to_cw, cw_alive, pc, adapter_number,
                   fei, caller, r, sent_in, nrecv, cause, resolved,
                   matches, element>>

(* ---------------------------- specifications --------------------------- *)

\* The documented filesystem, which then stays as it is; the inotify daemon
\* and the control window run concurrently with the manager.
Init ==
    /\ fs \in UniformFs
    /\ InitManager

Next ==
    \/ Manager
    \/ (Running /\ \E m \in IN_Message : WatcherSend(m))
    \/ (Running /\ WatcherDrop)
    \/ (Running /\ ControlDrop)

Spec == Init /\ [][Next]_vars

\* The manager is a thread of its own: it is scheduled, its sleep ends and
\* its filesystem queries return.
FairSpec == Spec /\ WF_vars(Manager)

\* The filesystem changes under the manager; the inotify daemon acts while
\* the manager is blocked in recv().
Blocked == pc = "recv" /\ from_in = <<>>

EnvLeft == Len(sent_in) + nchanges < MaxEnv

NextFs ==
    \/ Manager
    \/ (Blocked /\ EnvLeft /\ \E m \in IN_Message : WatcherSend(m))
    \/ (Blocked /\ WatcherDrop)
    \/ (EnvLeft /\ \E p \in Relevant : \E k \in KindsOf(p) : FsChange(p, k))

\* The filesystems in which adapter 0 has any entries whatever at its
\* frontend paths.
AnyFs ==
    {MakeFs(TRUE, {0}, [a \in AdapterIds |-> ks]) :
        ks \in [FrontendIds -> {"absent", "char", "other"}]}

\* The filesystems in which any of the adapter directories exist, gaps in
\* the numbering included, each with the frontends 0..m-1.
SparseFs ==
    {MakeFs(TRUE, dirs, [a \in AdapterIds |-> Dense(m)]) :
        dirs \in SUBSET AdapterIds, m \in 1 .. MaxFrontend + 1}

InitFs ==
    /\ fs \in UniformFs \cup AnyFs \cup SparseFs
    /\ InitManager

SpecFs == InitFs /\ [][NextFs]_vars

FairSpecFs == SpecFs /\ WF_vars(Manager)

\* The documented environment: adapters are numbered densely from 0, so
\* that the next to be created is the first missing one and the next to be
\* removed the last existing one; the inotify daemon reports each creation
\* and removal of an adapter directory as it happens; and the frontend
\* nodes of a new adapter come to exist, densely from 0, before the settle
\* delay for its AdapterAppeared has elapsed.
Exists(p) == metadata(fs, p) # "absent"

\* A change of the filesystem and the message of the inotify daemon about
\* it.
ReportedChange(p, k, m) ==
    /\ in_sender
    /\ Len(sent_in) < MaxInbound
    /\ fs' = SetPath(fs, p, k)
    /\ from_in' = Append(from_in, m)
    /\ sent_in' = Append(sent_in, m)
    /\ cur' = [cur EXCEPT !.stable = FALSE, !.estable = FALSE]
    /\ UNCHANGED <<in_sender, to_cw, cw_alive, pc, adapter_number, fei,
                   caller, r, nrecv, cause, nchanges, resolved,
                   matches, element>>

AdapterCreated(a) ==
    /\ ~Exists(adapter_path(a))
    /\ \A b \in 0 .. a - 1 : Exists(adapter_path(b))
    /\ ReportedChange(adapter_path(a), "dir", IN_AdapterAppeared(a))

AdapterRemoved(a) ==
    /\ Exists(adapter_path(a))
    /\ \A b \in AdapterIds : b > a => ~Exists(adapter_path(b))
    /\ ReportedChange(adapter_path(a), "absent", IN_AdapterDisappeared(a))

\* An AdapterAppeared{a} is queued, or received with its settle delay not
\* yet elapsed.
Settling(a) ==
    \/ \E i \in 1 .. Len(from_in) : from_in[i] = IN_AdapterAppeared(a)
    \/ (cur.msg = IN_AdapterAppeared(a) /\ ~cur.slept)

\* The next frontend node of a new adapter comes to exist.
FrontendCreated(a) ==
    /\ Exists(adapter_path(a))
    /\ Settling(a)
    /\ \E f \in FrontendIds :
          /\ ~Exists(frontend_path(FrontendId(a, f)))
          /\ \A g \in 0 .. f - 1 : Exists(frontend_path(FrontendId(a, g)))
          /\ fs' = SetPath(fs, frontend_path(FrontendId(a, f)), "char")
    /\ cur' = [cur EXCEPT !.stable = FALSE, !.estable = FALSE]
    /\ UNCHANGED <<from_in, in_sender, to_cw, cw_alive, pc, adapter_number,
                   fei, caller, r, sent_in, nrecv, cause, nchanges, resolved,
                   matches, element>>

NextReconcile ==
    \/ Manager
    \/ (Running /\ \E a \in AdapterIds : AdapterCreated(a))
    \/ (Running /\ \E a \in AdapterIds : AdapterRemoved(a))
    \/ (Running /\ \E a \in AdapterIds : FrontendCreated(a))
    \/ (Blocked /\ WatcherDrop)

SpecReconcile == Init /\ [][NextReconcile]_vars /\ WF_vars(Manager)

\* add_frontends near the end of the index type. The filesystem holds an
\* entry at every frontend index of adapter a below WideStart, none of them
\* a character device, so that the loop has come to WideStart having sent
\* nothing; at the indices from WideStart to u16::MAX it holds anything. Of
\* the entries below WideStart the function lists those the turns followed
\* can come to after a wrap.
WideStart == U16_MAX - 2

WideLow == 0 .. MaxTurns

WideTop == WideStart .. U16_MAX

WideFs(a) ==
    {[p \in {DVB_BASE_PATH, adapter_path(a)}
              \cup {frontend_path(FrontendId(a, f)) : f \in WideLow \cup WideTop}
        |-> IF p \in {DVB_BASE_PATH, adapter_path(a)} THEN "dir"
            ELSE IF \E f \in WideTop : p = frontend_path(FrontendId(a, f))
                 THEN ks[CHOOSE f \in WideTop : p = frontend_path(FrontendId(a, f))]
                 ELSE "other"] :
        ks \in [WideTop -> {"absent", "char", "other"}]}

\* The loop of add_frontends stands at WideStart, called by the startup
\* scan or for an AdapterAppeared.
InitWide ==
    \E a \in AdapterIds :
        /\ fs \in WideFs(a)
        /\ from_in = <<>>
        /\ in_sender = TRUE
        /\ to_cw = <<>>
        /\ cw_alive = TRUE
        /\ pc = "enum"
        /\ adapter_number = a
        /\ fei = FrontendId(a, WideStart)
        /\ caller \in {"scan", "run"}
        /\ r = IF caller = "scan" THEN Startup ELSE IN_AdapterAppeared(a)
        /\ sent_in = IF caller = "scan" THEN <<>> ELSE <<r>>
        /\ nrecv = Len(sent_in)
        /\ cause = <<>>
        /\ nchanges = 0
        /\ cur = Called([NewPass(nrecv, r) EXCEPT !.slept = (caller = "run")])
        /\ resolved = <<>>
        /\ matches = <<>>
        /\ element = <<>>

TurnsLeft == Len(cur.q) < MaxTurns

NextWide == TurnsLeft /\ add_frontends

SpecWide == InitWide /\ [][NextWide]_vars

\* The resolver functions called on their own, as the property tests of
\* the module call them, with ids from over the range of u16: the ends of
\* the range and the values on either side of each change in the number of
\* digits.
U16Sample == {0, 1, 9, 10, 11, 99, 100, 999, 1000, 9999, 10000, U16_MAX}

InitPaths ==
    /\ fs = MakeFs(FALSE, {}, [a \in AdapterIds |-> Dense(0)])
    /\ from_in = <<>>
    /\ in_sender = TRUE
    /\ to_cw = <<>>
    /\ cw_alive = TRUE
    /\ pc = "resolve"
    /\ adapter_number = 0
    /\ fei \in {FrontendId(a, f) : a \in U16Sample, f \in U16Sample}
    /\ caller = "test"
    /\ r = Startup
    /\ sent_in = <<>>
    /\ nrecv = 0
    /\ cause = <<>>
    /\ nchanges = 0
    /\ cur = NewPass(0, Startup)
    /\ resolved = <<>>
    /\ matches = <<>>
    /\ element = <<>>

\* The four resolver functions are applied to fei.
resolve_paths ==
    /\ pc = "resolve"
    /\ resolved' = [adapter |-> adapter_path(fei.adapter),
                    frontend |-> frontend_path(fei),
                    demux |-> demux_path(fei),
                    dvr |-> dvr_path(fei)]
    /\ pc' = "resolved"
    /\ UNCHANGED <<fs, from_in, in_sender, to_cw, cw_alive, adapter_number,
                   fei, caller, r, sent_in, nrecv, cause, cur, nchanges,
                   matches, element>>

SpecPaths == InitPaths /\ [][resolve_paths]_vars

\* me-tv-record: the handler connected to "source-setup" of uridecodebin,
\* called with the source element that was created.
Numbers == 0 .. MaxNumber

\* i32 as u8: the low eight bits.
as_u8(v) == v % 256

InitRecord ==
    /\ fs = MakeFs(FALSE, {}, [a \in AdapterIds |-> Dense(0)])
    /\ from_in = <<>>
    /\ in_sender = TRUE
    /\ to_cw = <<>>
    /\ cw_alive = TRUE
    /\ pc = "source_setup"
    /\ adapter_number = 0
    /\ fei = FrontendId(0, 0)
    /\ caller = "uridecodebin"
    /\ r = Startup
    /\ sent_in = <<>>
    /\ nrecv = 0
    /\ cause = <<>>
    /\ nchanges = 0
    /\ cur = NewPass(0, Startup)
    /\ resolved = <<>>
    /\ matches \in [adapter : Numbers, frontend : Numbers]
    /\ element \in [factory : {"dvbbasebin", "filesrc"},
                     adapter : Numbers, frontend : Numbers]

\* The closure: on a dvbbasebin, read both properties, then set those found
\* to differ.
source_setup ==
    /\ pc = "source_setup"
    /\ pc' = "source_set"
    /\ IF element.factory = "dvbbasebin"
       THEN LET current_adapter_number == as_u8(element.adapter)
                current_frontend_number == as_u8(element.frontend)
                e1 == IF current_adapter_number # matches.adapter
                      THEN [element EXCEPT !.adapter = matches.adapter]
                      ELSE element
                e2 == IF current_frontend_number # matches.adapter
                      THEN [e1 EXCEPT !.frontend = matches.frontend]
                      ELSE e1 IN
            element' = e2
       ELSE UNCHANGED element
    /\ UNCHANGED <<fs, from_in, in_sender, to_cw, cw_alive, adapter_number,
                   fei, caller, r, sent_in, nrecv, cause, cur, nchanges,
                   resolved, matches>>

SpecRecord == InitRecord /\ [][source_setup]_vars

(* ------------------------- what the claims speak of -------------------- *)

\* The messages the pass numbered n has sent, in send order.
RECURSIVE Caused(_, _)
Caused(n, i) ==
    IF i = 0 THEN <<>>
    ELSE IF cause[i] = n THEN Append(Caused(n, i - 1), to_cw[i])
    ELSE Caused(n, i - 1)

CausedBy(n) == Caused(n, Len(to_cw))

\* The pass recorded in cur has run to its end.
PassDone == pc \in {"recv", "terminated"}

Kind(f, a, i) == metadata(f, frontend_path(FrontendId(a, i)))

\* The first frontend index of adapter a at which nothing exists in f.
FirstAbsent(f, a) ==
    CHOOSE k \in 0 .. MaxFrontend + 1 :
        /\ Kind(f, a, k) = "absent"
        /\ \A i \in 0 .. k - 1 : Kind(f, a, i) # "absent"

\* FrontendAppeared for the character devices of adapter a among its
\* frontend indices below k, in increasing index order.
RECURSIVE CharsBelow(_, _, _)
CharsBelow(f, a, k) ==
    IF k = 0 THEN <<>>
    ELSE IF Kind(f, a, k - 1) = "char"
         THEN Append(CharsBelow(f, a, k - 1),
                     FrontendAppeared(FrontendId(a, k - 1)))
         ELSE CharsBelow(f, a, k - 1)

\* What an enumeration of adapter a reports of a filesystem that stays f.
Expected(f, a) == CharsBelow(f, a, FirstAbsent(f, a))

\* FrontendAppeared for each query in q that found a character device.
RECURSIVE CharsFound(_)
CharsFound(q) ==
    IF q = <<>> THEN <<>>
    ELSE LET e == q[Len(q)]
             rest == CharsFound(SubSeq(q, 1, Len(q) - 1)) IN
         IF e[2] = "char" /\ e[1] \in FrontendPaths
         THEN Append(rest, FrontendAppeared(
                               FrontendId(AdapterOf(e[1]), FrontendOf(e[1]))))
         ELSE rest

\* The messages the latest call of add_frontends has sent.
EnumEvents == SubSeq(to_cw, cur.base + 1, Len(to_cw))

\* The latest call of add_frontends has returned.
EnumReturned == cur.called /\ pc \notin {"enum", "panicked", "overflowed"}

\* The frontend indices for which seq holds a FrontendAppeared.
Reported(seq) == {seq[i].fei.frontend : i \in 1 .. Len(seq)}

AppearedPass == cur.msg.type = "AdapterAppeared"
DisappearedPass == cur.msg.type = "AdapterDisappeared"

(* -------------------------------- claims ------------------------------- *)

\* C1: handling AdapterAppeared{id}, the manager queries and sends only
\* after the settle delay, sends nothing but FrontendAppeared for adapter
\* id, and by the end of the pass has sent exactly one FrontendAppeared for
\* each character device its enumeration found: the character devices of
\* adapter id below its first absent index, in the filesystem as it stands
\* after the delay.
C1_AppearedEnumeratesAfterDelay ==
    AppearedPass =>
        /\ (cur.q # <<>> \/ CausedBy(cur.n) # <<>> \/ pc = "enum") => cur.slept
        /\ \A i \in 1 .. Len(CausedBy(cur.n)) :
              /\ CausedBy(cur.n)[i].type = "FrontendAppeared"
              /\ CausedBy(cur.n)[i].fei.adapter = cur.msg.id
        /\ PassDone => CausedBy(cur.n) = CharsFound(cur.q)
        /\ (PassDone /\ cur.stable) =>
              CausedBy(cur.n) = Expected(fs, cur.msg.id)

\* C1 witness: an AdapterAppeared pass has ended with two FrontendAppeared
\* sent, one of them for a frontend that came to exist during the delay.
C1_Witness ==
    /\ AppearedPass
    /\ PassDone
    /\ cur.stable
    /\ nchanges > cur.c0
    /\ Len(CausedBy(cur.n)) = 2

\* C2: having handled AdapterDisappeared{id} the manager has sent exactly
\* one message, AdapterDisappeared{id}, and has made no filesystem query,
\* whatever is at the adapter's path.
C2_DisappearedForwardedUnchecked ==
    (DisappearedPass /\ pc # "panicked") =>
        /\ CausedBy(cur.n) = <<AdapterDisappeared(cur.msg.id)>>
        /\ cur.q = <<>>

\* C2 witness: AdapterDisappeared was forwarded for an adapter whose
\* directory still exists.
C2_Witness ==
    /\ DisappearedPass
    /\ pc = "recv"
    /\ fs[adapter_path(cur.msg.id)] = "dir"
    /\ CausedBy(cur.n) = <<AdapterDisappeared(cur.msg.id)>>

\* C3: nothing is received before the startup scan has ended, and on the
\* outbound channel every message of the startup scan precedes every
\* message caused by an inbound message.
C3_StartupBeforeHotplug ==
    /\ nrecv > 0 => pc \notin {"scan_base", "scan_adapter"}
    /\ (nrecv > 0 /\ pc = "enum") => caller = "run"
    /\ (pc \in {"scan_base", "scan_adapter"} \/ (pc = "enum" /\ caller = "scan"))
          => cur.n = 0
    /\ \A i, j \in 1 .. Len(cause) : (i < j /\ cause[j] = 0) => cause[i] = 0

\* C3 witness: the scan is still enumerating, has sent a message, and an
\* inbound message is already queued.
C3_Witness ==
    /\ pc = "enum"
    /\ caller = "scan"
    /\ to_cw # <<>>
    /\ from_in # <<>>

\* C4: messages are received in the order sent; what message n caused
\* precedes what message n+1 caused and answers message n; the
\* FrontendAppeared of one AdapterAppeared are in strictly increasing
\* frontend order.
C4_OrderPreserved ==
    /\ nrecv <= Len(sent_in)
    /\ from_in = SubSeq(sent_in, nrecv + 1, Len(sent_in))
    /\ nrecv > 0 => r = sent_in[nrecv]
    /\ \A i, j \in 1 .. Len(cause) : i < j => cause[i] <= cause[j]
    /\ \A i \in 1 .. Len(cause) :
          cause[i] > 0 =>
             /\ cause[i] <= nrecv
             /\ LET m == sent_in[cause[i]] IN
                   IF m.type = "AdapterDisappeared"
                   THEN to_cw[i] = AdapterDisappeared(m.id)
                   ELSE /\ to_cw[i].type = "FrontendAppeared"
                        /\ to_cw[i].fei.adapter = m.id
    /\ \A i, j \in 1 .. Len(cause) :
          (i < j /\ cause[i] = cause[j] /\ cause[i] > 0
              /\ to_cw[i].type = "FrontendAppeared")
             => to_cw[i].fei.frontend < to_cw[j].fei.frontend

\* C4 witness: two inbound messages were queued together, the first an
\* AdapterAppeared that caused two FrontendAppeared, and the second has
\* caused a message too.
C4_Witness ==
    /\ nrecv = 2
    /\ Len(CausedBy(1)) = 2
    /\ Len(CausedBy(2)) >= 1
    /\ sent_in[1].id # sent_in[2].id

\* C5 as stated: with paths present at 0..k-1 and absent at k, a returned
\* call of add_frontends has sent exactly k FrontendAppeared, for the
\* indices 0..k-1 in order.
C5_ExactlyK ==
    (EnumReturned /\ cur.estable) =>
        LET k == FirstAbsent(fs, fei.adapter) IN
            /\ Len(EnumEvents) = k
            /\ \A i \in 1 .. Len(EnumEvents) :
                  EnumEvents[i] = FrontendAppeared(FrontendId(fei.adapter, i - 1))

\* C5 amended: with paths present at 0..k-1 and absent at k, a call of
\* add_frontends sends nothing for an index at or above k whatever exists
\* there, and when it has returned it has sent one FrontendAppeared for each
\* index below k that is a character device, in increasing order: exactly k
\* when all of them are.
C5_OnePerCharBelowK ==
    (cur.called /\ cur.estable) =>
        LET a == fei.adapter
            k == FirstAbsent(fs, a) IN
            /\ \A i \in 1 .. Len(EnumEvents) :
                  /\ EnumEvents[i].type = "FrontendAppeared"
                  /\ EnumEvents[i].fei.adapter = a
                  /\ EnumEvents[i].fei.frontend < k
            /\ \A i, j \in 1 .. Len(EnumEvents) :
                  i < j => EnumEvents[i].fei.frontend < EnumEvents[j].fei.frontend
            /\ EnumReturned => EnumEvents = CharsBelow(fs, a, k)
            /\ (EnumReturned /\ \A i \in 0 .. k - 1 : Kind(fs, a, i) = "char")
                  => Len(EnumEvents) = k

\* C5 witness: a call has returned having sent for an index below the first
\* absent one, while a character device exists above it.
C5_Witness ==
    /\ EnumReturned
    /\ cur.estable
    /\ EnumEvents # <<>>
    /\ \E i \in FrontendIds :
          /\ i > FirstAbsent(fs, fei.adapter)
          /\ Kind(fs, fei.adapter, i) = "char"

\* C6: when a call of add_frontends has returned, an index below the first
\* absent one that is not a character device has no FrontendAppeared, and
\* every index below the first absent one that is a character device has
\* one, the indices after a wrong-typed entry included.
C6_WrongTypeSkipped ==
    (EnumReturned /\ cur.estable) =>
        LET a == fei.adapter IN
        \A i \in 0 .. FirstAbsent(fs, a) - 1 :
            Cardinality({n \in 1 .. Len(EnumEvents) :
                            EnumEvents[n] = FrontendAppeared(FrontendId(a, i))})
                = IF Kind(fs, a, i) = "char" THEN 1 ELSE 0

\* C6 witness: a call has returned with index 0 of another file type and a
\* FrontendAppeared sent for index 1.
C6_Witness ==
    /\ EnumReturned
    /\ cur.estable
    /\ Kind(fs, fei.adapter, 0) = "other"
    /\ 1 \in Reported(EnumEvents)

\* C7: every FrontendAppeared{a, f} the pass has sent follows, in the
\* pass's log of queries, a query of frontend_path(a, f) answered "character
\* device", which itself follows successful queries of the indices 0..f-1
\* of adapter a; no query of that path in the pass was answered otherwise.
C7_EmittedOnlyAfterCharQuery ==
    \A n \in 1 .. Len(to_cw) :
        (cause[n] = cur.n /\ to_cw[n].type = "FrontendAppeared") =>
            LET a == to_cw[n].fei.adapter
                f == to_cw[n].fei.frontend IN
            /\ \E j \in 1 .. Len(cur.q) :
                  /\ cur.q[j] = <<frontend_path(to_cw[n].fei), "char">>
                  /\ \A g \in 0 .. f - 1 :
                        \E h \in 1 .. j - 1 :
                           /\ cur.q[h][1] = frontend_path(FrontendId(a, g))
                           /\ cur.q[h][2] # "absent"
            /\ \A j \in 1 .. Len(cur.q) :
                  cur.q[j][1] = frontend_path(to_cw[n].fei) => cur.q[j][2] = "char"

\* C7 witness: while the filesystem was changing under the call, a
\* FrontendAppeared was sent for an index above 0 after a query of an entry
\* of another file type.
C7_Witness ==
    /\ ~cur.estable
    /\ \E j \in 1 .. Len(cur.q) : cur.q[j][2] = "other"
    /\ \E n \in 1 .. Len(to_cw) :
          /\ cause[n] = cur.n
          /\ to_cw[n].type = "FrontendAppeared"
          /\ to_cw[n].fei.frontend > 0

\* C8: once the inotify daemon has dropped its Sender, the manager ends
\* Terminated, unless a send to a control window that is gone has made it
\* panic.
C8_SenderDropTerminates ==
    (~in_sender) ~> (pc = "terminated" \/ (pc = "panicked" /\ ~cw_alive))

\* C8 witness: the manager has terminated, having handled messages, with the
\* control window alive.
C8_Witness ==
    /\ pc = "terminated"
    /\ cw_alive
    /\ nrecv > 0

\* The manager is about to send.
SendDue ==
    \/ /\ pc = "enum"
       /\ Kind(fs, fei.adapter, fei.frontend) = "char"
    \/ /\ pc = "recv"
       /\ from_in # <<>>
       /\ Head(from_in).type = "AdapterDisappeared"

\* The step is one of the manager.
ManagerStep == pc' # pc \/ nrecv' # nrecv \/ cur'.q # cur.q

\* C9: a send to a control window that is gone makes the manager panic
\* without enqueuing; the manager panics for no other reason; and once it
\* has panicked it stays so, receives nothing and sends nothing.
C9_SendFailureFatal ==
    [][/\ (SendDue /\ ~cw_alive /\ ManagerStep)
             => (pc' = "panicked" /\ to_cw' = to_cw)
       /\ (pc' = "panicked" /\ pc # "panicked") => (SendDue /\ ~cw_alive)
       /\ pc = "panicked"
             => (pc' = "panicked" /\ nrecv' = nrecv /\ to_cw' = to_cw
                    /\ from_in' = from_in)]_vars

\* C9 witness: the manager has panicked while enumerating for an
\* AdapterAppeared, after the sends of the startup scan, with a message
\* still queued.
C9_Witness ==
    /\ pc = "panicked"
    /\ AppearedPass
    /\ to_cw # <<>>
    /\ from_in # <<>>

\* Message n has been received and its handling has ended.
Handled(n) == nrecv > n \/ (nrecv = n /\ pc \in {"recv", "terminated"})

\* C10: the queue holds exactly the messages sent and not yet received, in
\* order, also across the settle delay; each receive takes the next message
\* sent; and every message sent is in the end handled (time and again all
\* that were sent so far have been), unless the control window goes.
C10_NoInboundLost ==
    /\ [](from_in = SubSeq(sent_in, nrecv + 1, Len(sent_in)))
    /\ [][/\ nrecv' \in {nrecv, nrecv + 1}
          /\ nrecv' = nrecv + 1 => r' = sent_in[nrecv + 1]
          /\ pc = "sleep" => SubSeq(from_in', 1, Len(from_in)) = from_in]_vars
    /\ []<>(Handled(Len(sent_in)) \/ ~cw_alive)

\* C10 witness: the manager sleeps for the first message while the rest are
\* queued.
C10_Witness ==
    /\ pc = "sleep"
    /\ nrecv = 1
    /\ Len(from_in) = MaxInbound - 1
    /\ Len(from_in) > 0

\* The first adapter index at which nothing exists in f.
FirstMissing(f) ==
    CHOOSE n \in 0 .. MaxAdapter + 1 :
        /\ metadata(f, adapter_path(n)) = "absent"
        /\ \A a \in 0 .. n - 1 : metadata(f, adapter_path(a)) # "absent"

\* The enumerations of the adapters below n, in adapter order.
RECURSIVE ScanBelow(_, _)
ScanBelow(f, n) ==
    IF n = 0 THEN <<>> ELSE ScanBelow(f, n - 1) \o Expected(f, n - 1)

\* What the startup scan reports of a filesystem that stays f.
ScanExpected(f) ==
    IF metadata(f, DVB_BASE_PATH) = "absent" THEN <<>>
    ELSE ScanBelow(f, FirstMissing(f))

\* The startup scan is in progress.
Scanning ==
    pc \in {"scan_base", "scan_adapter"} \/ (pc = "enum" /\ caller = "scan")

\* The startup scan has ended and nothing has been received yet.
ScanOver == cur.n = 0 /\ pc = "recv"

\* What holds of the startup scan at every moment.
ScanSafe ==
    /\ \A i \in 1 .. Len(to_cw) :
          (cause[i] = 0) =>
             (/\ to_cw[i].type = "FrontendAppeared"
              /\ to_cw[i].fei.adapter <= adapter_number
              /\ (cur.n = 0) =>
                    (\E j \in 1 .. Len(cur.q) :
                       cur.q[j] = <<adapter_path(to_cw[i].fei.adapter), "dir">>))
    /\ ScanOver =>
          (/\ \A i \in 1 .. Len(to_cw) : to_cw[i].fei.adapter < adapter_number
           /\ cur.q[Len(cur.q)][2] = "absent")
    /\ (ScanOver /\ cur.stable) => (to_cw = ScanExpected(fs))
    /\ (ScanOver /\ cur.stable /\ fs[DVB_BASE_PATH] = "absent") => (to_cw = <<>>)

\* C11: the startup scan asks for the adapters 0, 1, 2, ... in order and
\* sends only for adapters it found, all below the index it stands at; when
\* it is over it has sent exactly the enumerations of the adapters below the
\* first missing index, nothing for an adapter above the gap and nothing at
\* all when the base directory is absent; and the scan always ends with the
\* manager in its receive loop.
C11_ScanStopsAtFirstGap == []ScanSafe /\ (Scanning ~> ScanOver)

\* C11 witness: the scan is over and has sent nothing, adapter 0 being
\* absent while adapter 1 and its frontend 0 exist.
C11_Witness ==
    /\ ScanOver
    /\ cur.stable
    /\ fs[adapter_path(0)] = "absent"
    /\ fs[adapter_path(1)] = "dir"
    /\ fs[frontend_path(FrontendId(1, 0))] = "char"
    /\ to_cw = <<>>

\* recv() fails: nothing is queued and the Sender is dropped.
RecvFails == pc = "recv" /\ from_in = <<>> /\ ~in_sender

\* C12 as stated: the manager stops running only by a step taken when a
\* receive fails because the Sender is dropped.
C12_OnlyRecvFailureEndsRunning ==
    [][(Running /\ ~Running') => RecvFails]_vars

\* C12 amended: the manager reaches Terminated only by a step taken when a
\* receive fails because the Sender is dropped; the one other way it stops
\* running, with frontend indices short of u16::MAX, is the panic of a send
\* to a control window that is gone; and while the Sender is held a receive
\* on an empty queue blocks, without timing out.
C12_EndsByRecvFailureOrSendPanic ==
    /\ [][(Running /\ ~Running') =>
             \/ (RecvFails /\ pc' = "terminated")
             \/ (SendDue /\ ~cw_alive /\ pc' = "panicked")]_vars
    /\ [](pc = "terminated" => (~in_sender /\ from_in = <<>>))
    /\ []((Blocked /\ in_sender) => ~ENABLED Manager)

\* C12 witness: the manager has terminated after its receive failed, with
\* the control window already gone and every message sent received.
C12_Witness ==
    /\ pc = "terminated"
    /\ ~cw_alive
    /\ nrecv = MaxInbound

\* C13 as stated: a call of add_frontends terminates whatever the
\* filesystem holds. Stated so that a finite run refutes it: no turn of the
\* loop ends in a panic on the increment of the index, and every turn
\* either returns to the caller or goes on to a strictly greater index, of
\* which there are 65536.
C13_EnumeratorTerminates ==
    [][(pc = "enum") =>
          /\ pc' \in {"enum", ReturnTo(caller)}
          /\ (pc' = "enum") => (fei'.frontend > fei.frontend)]_vars

\* The value of the decimal digit c, 10 for any other character.
DigitValue(c) ==
    CASE c = "0" -> 0 [] c = "1" -> 1 [] c = "2" -> 2 [] c = "3" -> 3
      [] c = "4" -> 4 [] c = "5" -> 5 [] c = "6" -> 6 [] c = "7" -> 7
      [] c = "8" -> 8 [] c = "9" -> 9 [] OTHER -> 10

\* s is the decimal representation of n: digits only, no leading zero, of
\* value n.
RECURSIVE DecimalValue(_)
DecimalValue(s) ==
    IF Len(s) = 0 THEN 0
    ELSE 10 * DecimalValue(SubSeq(s, 1, Len(s) - 1))
            + DigitValue(SubSeq(s, Len(s), Len(s)))

IsDecimalOf(s, n) ==
    /\ Len(s) >= 1
    /\ \A i \in 1 .. Len(s) : DigitValue(SubSeq(s, i, i)) < 10
    /\ Len(s) > 1 => SubSeq(s, 1, 1) # "0"
    /\ DecimalValue(s) = n

\* s is the string pre, then the string mid, then the decimal digits of n.
IsJoin(s, pre, mid, n) ==
    /\ Len(s) > Len(pre) + Len(mid)
    /\ SubSeq(s, 1, Len(pre)) = pre
    /\ SubSeq(s, Len(pre) + 1, Len(pre) + Len(mid)) = mid
    /\ IsDecimalOf(SubSeq(s, Len(pre) + Len(mid) + 1, Len(s)), n)

\* The four paths of id.
Resolve(id) ==
    [adapter |-> adapter_path(id.adapter), frontend |-> frontend_path(id),
     demux |-> demux_path(id), dvr |-> dvr_path(id)]

\* The paths in res are those of adapter a, frontend f, character for
\* character.
ExactPaths(res, a, f) ==
    /\ IsJoin(res.adapter, "/dev/dvb", "/adapter", a)
    /\ IsJoin(res.frontend, res.adapter, "/frontend", f)
    /\ IsJoin(res.demux, res.adapter, "/demux", f)
    /\ IsJoin(res.dvr, res.adapter, "/dvr", f)

\* C14: adapter_path(a) is the base path, "/adapter" and the decimal digits
\* of a; frontend_path, demux_path and dvr_path of FrontendId{a, f} are
\* adapter_path(a), then "/frontend", "/demux" and "/dvr", then the decimal
\* digits of f; neither index is offset. Of the pairs of the sample, as
\* resolved; and, looked at once, of every u16 as the adapter and of every
\* u16 as the frontend.
C14_PathsAreExactStrings ==
    /\ (pc = "resolved") => ExactPaths(resolved, fei.adapter, fei.frontend)
    /\ (pc = "resolved" /\ fei = FrontendId(0, U16_MAX)) =>
          \A n \in 0 .. U16_MAX :
              /\ ExactPaths(Resolve(FrontendId(n, U16_MAX)), n, U16_MAX)
              /\ ExactPaths(Resolve(FrontendId(0, n)), 0, n)

\* C14 witness: the paths of adapter 10, frontend 65535 are resolved.
C14_Witness ==
    /\ pc = "resolved"
    /\ fei = FrontendId(10, U16_MAX)
    /\ resolved.dvr = "/dev/dvb/adapter10/dvr65535"

\* The paths of id differ from those in res, resolved for another id: the
\* adapter path when the adapters differ, and the frontend, demux and dvr
\* paths in every case.
Distinct(res, of, id) ==
    LET other == Resolve(id) IN
    /\ (id.adapter # of.adapter) => (other.adapter # res.adapter)
    /\ (id # of) =>
          /\ other.frontend # res.frontend
          /\ other.demux # res.demux
          /\ other.dvr # res.dvr

\* C15: the paths resolved for fei differ from those of every other id: the
\* adapter path when the adapters differ, and each of the frontend, demux
\* and dvr paths when the adapters, the frontends or both differ. Of the
\* pairs of the sample; and, for FrontendId{1, 11}, of every u16 in the
\* place of the adapter and in the place of the frontend.
C15_ResolversInjective ==
    /\ (pc = "resolved") =>
          \A a \in U16Sample, f \in U16Sample :
              Distinct(resolved, fei, FrontendId(a, f))
    /\ (pc = "resolved" /\ fei = FrontendId(1, 11)) =>
          \A n \in 0 .. U16_MAX :
              /\ Distinct(resolved, fei, FrontendId(n, 11))
              /\ Distinct(resolved, fei, FrontendId(1, n))
              /\ Distinct(resolved, fei, FrontendId(11, n))

\* C15 witness: the paths of adapter 1, frontend 11 are resolved, those of
\* adapter 11, frontend 1 being others.
C15_Witness ==
    /\ pc = "resolved"
    /\ fei = FrontendId(1, 11)
    /\ resolved.frontend # frontend_path(FrontendId(11, 1))
    /\ resolved.frontend = "/dev/dvb/adapter1/frontend11"

\* The set the control window keeps: FrontendAppeared adds its frontend,
\* AdapterDisappeared{a} removes every frontend of adapter a.
RECURSIVE Registry(_)
Registry(seq) ==
    IF seq = <<>> THEN {}
    ELSE LET m == seq[Len(seq)]
             before == Registry(SubSeq(seq, 1, Len(seq) - 1)) IN
         IF m.type = "FrontendAppeared" THEN before \cup {m.fei}
         ELSE {x \in before : x.adapter # m.id}

\* The character-device frontends present in f.
CharFrontends(f) ==
    {id \in {FrontendId(a, i) : a \in AdapterIds, i \in FrontendIds} :
        metadata(f, frontend_path(id)) = "char"}

\* Every change is reported and handled: nothing is queued and the manager
\* waits for a message or has terminated.
Quiescent == pc \in {"recv", "terminated"} /\ from_in = <<>>

\* C16: in the documented environment, whenever the inbound queue is
\* drained and the manager is back in recv() (or has terminated) the set
\* the control window keeps equals the set of character-device frontends in
\* the filesystem; and once the filesystem has stopped changing this comes
\* to hold for good.
C16_ReconciliationConverges ==
    /\ [](Quiescent => (Registry(to_cw) = CharFrontends(fs)))
    /\ <>[](Quiescent /\ Registry(to_cw) = CharFrontends(fs))

\* C16 witness: adapter 0, found without frontends by the startup scan, was
\* removed and created again; frontend 0 of the new adapter came to exist
\* before the settle delay had elapsed, and the set holds it.
C16_Witness ==
    /\ Quiescent
    /\ sent_in = <<IN_AdapterDisappeared(0), IN_AdapterAppeared(0)>>
    /\ nrecv = 2
    /\ cur.slept
    /\ to_cw[1].type = "AdapterDisappeared"
    /\ Registry(to_cw) = {FrontendId(0, 0)}

\* What handling message m sends in a filesystem that stays f.
Answer(f, m) ==
    IF m.type = "AdapterAppeared" THEN Expected(f, m.id)
    ELSE <<AdapterDisappeared(m.id)>>

\* C17: with the filesystem as it stays, what each handled inbound message
\* has caused is a function of that message and the filesystem alone,
\* whatever was received and sent before it: an AdapterAppeared{id} causes
\* the whole enumeration of adapter id, also of frontends reported before
\* with no AdapterDisappeared since, and the startup scan its own.
C17_NoRegistryNoDeduplication ==
    /\ \A n \in 1 .. nrecv :
          Handled(n) => (CausedBy(n) = Answer(fs, sent_in[n]))
    /\ (nrecv > 0) => (CausedBy(0) = ScanExpected(fs))

\* C17 witness: FrontendAppeared for adapter 0, frontend 0 has been sent
\* three times, by the startup scan and by two AdapterAppeared{0}, and no
\* AdapterDisappeared at all.
C17_Witness ==
    /\ Handled(2)
    /\ sent_in = <<IN_AdapterAppeared(0), IN_AdapterAppeared(0)>>
    /\ \A n \in 0 .. 2 :
          /\ CausedBy(n) # <<>>
          /\ CausedBy(n)[1] = FrontendAppeared(FrontendId(0, 0))

\* The Sender is dropped with messages still queued.
DroppedUndrained == ~in_sender /\ from_in # <<>>

\* C18: the manager terminates only with the queue empty, having received
\* every message sent and sent for each what it calls for; and when the
\* Sender is dropped with messages still queued, the manager goes on to
\* receive them all before it terminates, unless a send to a control window
\* that is gone makes it panic.
C18_ShutdownDrainsQueue ==
    /\ [](pc = "terminated" =>
             /\ from_in = <<>>
             /\ nrecv = Len(sent_in)
             /\ \A n \in 1 .. Len(sent_in) :
                   CausedBy(n) = Answer(fs, sent_in[n]))
    /\ [][DroppedUndrained => pc' # "terminated"]_vars
    /\ DroppedUndrained ~>
          ((pc = "terminated" /\ nrecv = Len(sent_in)) \/ pc = "panicked")

\* C18 witness: the Sender was dropped during a settle delay with a message
\* queued behind the one being handled.
C18_Witness ==
    /\ pc = "sleep"
    /\ DroppedUndrained
    /\ cw_alive

\* The pass in progress last did what precedes a send: it received an
\* AdapterDisappeared or found a character device.
SendAttempted ==
    \/ DisappearedPass
    \/ (cur.q # <<>> /\ cur.q[Len(cur.q)][2] = "char")

\* C19: the drop of the control window's Receiver changes nothing in the
\* manager; with the Receiver gone a step of the manager fails if and only
\* if it attempts a send, so that the scan and the enumerations that find
\* no character device run to their end; the manager goes on receiving;
\* and a manager that has failed had attempted a send with the Receiver
\* gone.
C19_ConsumerLossSeenOnlyBySend ==
    /\ [][(cw_alive /\ ~cw_alive') =>
             (pc' = pc /\ from_in' = from_in /\ nrecv' = nrecv)]_vars
    /\ [][(~cw_alive /\ ManagerStep /\ pc # "panicked") =>
             ((pc' = "panicked") <=> SendDue)]_vars
    /\ []((~cw_alive /\ pc = "recv" /\ from_in # <<>>) => ENABLED Manager)
    /\ []((~cw_alive /\ pc \in {"scan_base", "scan_adapter", "enum", "sleep"})
             => ENABLED Manager)
    /\ []((pc = "panicked") => (~cw_alive /\ SendAttempted))

\* C19 witness: with the control window gone and nothing ever sent, the
\* manager has slept and is enumerating for the second AdapterAppeared it
\* has received, with nothing to send next.
C19_Witness ==
    /\ ~cw_alive
    /\ pc = "enum"
    /\ nrecv = 2
    /\ sent_in[1].type = "AdapterAppeared"
    /\ AppearedPass
    /\ ~SendDue
    /\ to_cw = <<>>

\* C20 as stated: after the source-setup handler has run on a dvbbasebin,
\* the element's adapter property is the --adapter value and its frontend
\* property the --frontend value.
C20_SourceSetToRequested ==
    (pc = "source_set" /\ element.factory = "dvbbasebin") =>
        /\ element.adapter = matches.adapter
        /\ element.frontend = matches.frontend

=============================================================================
